---- MODULE Spec2Model ----
(***************************************************************************)
(* The task move / reorder protocol of the Kanban board page               *)
(* (apps/web/app/board/[boardId]/page.tsx): one browser client with its    *)
(* local board state, the drag gesture handlers, the move request and the  *)
(* board re-fetch in flight, the server's board and the task-moved events  *)
(* of other clients.  Indices are 0-based as in the source.                *)
(***************************************************************************)
EXTENDS Integers, Sequences, FiniteSets, TLC

\* ------------------------------------------------------------------ bounds
MaxGestures == 2
MaxCalls == 4
MaxPropChanges == 1
MaxClicks == 1

\* --------------------------------------------------------------- universe
ListIds == {"A", "B"}
ListOrder == <<"A", "B">>
TaskIds == {"T1", "T2", "T3"}
Null == "null"
UnknownId == "X"
OverIds == ListIds \cup TaskIds \cup {UnknownId, Null}

EmptyLists == [l \in ListIds |-> <<>>]
NoBoard == [loaded |-> FALSE, lists |-> EmptyLists]
NoOrigin == [listId |-> Null, position |-> -1]
NoTarget == [listId |-> Null, index |-> -1]
NoHover == [over |-> Null, listId |-> Null, index |-> -1]

InitBoards ==
    { [l \in ListIds |-> IF l = "A" THEN <<"T1", "T2", "T3">> ELSE <<>>] }

\* the moves other clients of the board make, each at any moment
OtherClientMoves ==
    { [taskId |-> "T1", list_id |-> "B", position |-> 0] }

VARIABLES
    currentBoard,   \* useBoardStore().currentBoard: [loaded, lists]
    activeTask,     \* useState activeTask: a task id or Null
    dragOrigin,     \* dragOriginRef.current: [listId, position] or NoOrigin
    activeId,       \* the drag library's gesture in progress: active.id or Null
    serverBoard,    \* the server's lists (source of truth)
    moveRequests,   \* moveTask calls not yet settled, id: the gesture's number
    fetches,        \* fetchBoard calls not yet completed, id: 0 for the mount's
                    \* call, else the number of the gesture whose move failed
    events,         \* task-moved events on the board's socket channel
    toasts,         \* number of error notifications shown so far
    gestures,       \* number of gestures started so far
    remoteLeft,     \* the moves other clients have not made yet
    crossed,        \* the gesture in progress applied a cross-list optimistic move
    hover,          \* the last cross-list drag-over still reflected in the board
    startBoard,     \* the board at drag start, NoBoard once a remote change hit it
    currentBoardLoading, \* useBoardStore().currentBoardLoading
    mounted         \* the board page is mounted

\* the state of the board page
boardVars == << currentBoard, activeTask, dragOrigin, activeId, serverBoard,
                moveRequests, fetches, events, toasts,
                gestures, remoteLeft, crossed, hover, startBoard,
                currentBoardLoading, mounted >>

\* what decides whether the page renders its drag context
pageVars == << currentBoardLoading, mounted >>

\* the board the second lookup of handleDragEnd (lines 158-160) reads: the
\* one of the render that made the handler, or the one the store holds after
\* the reorder; which of them depends on how the store updates its board
SecondReads == {"rendered", "updated"}

\* BoardMembersModal (member search) and its collaborators
VARIABLES
    query,          \* useState query: the text of the search input, a sequence of characters
    results,        \* useState results: the users shown, a sequence of user ids
    searching,      \* useState searching
    adding,         \* useState adding: a user id or Null
    debounceRef,    \* debounceRef.current: the timer last started, or Null
    timers,         \* pending debounce timers, each the closure of its effect run
    searchRequests, \* searchUsers calls not yet settled
    searches,       \* number of searchUsers calls made so far
    members,        \* board.members: the user ids of the members
    addRequests,    \* addMember calls not yet settled
    adds,           \* number of addMember calls made so far
    notices,        \* the types of the toasts the modal has raised, in order
    removing,       \* useState removing: a user id or Null
    removeRequests, \* removeMember calls not yet settled
    removes,        \* number of removeMember calls made so far
    boardUpdates,   \* membership changes the store has yet to bring to the board
    modalMounted    \* the modal component is mounted

searchVars == << query, results, searching, adding, debounceRef, timers,
                 searchRequests, searches, members, addRequests, adds, notices,
                 removing, removeRequests, removes, boardUpdates, modalMounted >>

\* Toast components and the clock their timers run on
VARIABLES
    toastView,      \* per toast: its mount state, props, timers and onClose calls
    clock           \* milliseconds since the page was opened

toastVars == << toastView, clock >>

vars == << boardVars, searchVars, toastVars >>

\* ------------------------------------------------- member search universe
UserIds == {"u1", "u2", "u3", "u4"}
Owner == "u1"
InitMembers == {"u2"}

\* the texts typed into the search input, as sequences of characters
Queries ==
    { <<>>, <<"a", " ">>, <<"a", "l">>, <<"a", "l", " ">>, <<"b", "o">> }

\* the modal after mounting: empty query, nothing pending
SearchInit ==
    /\ query = <<>>
    /\ results = <<>>
    /\ searching = FALSE
    /\ adding = Null
    /\ debounceRef = Null
    /\ timers = {}
    /\ searchRequests = {}
    /\ searches = 0
    /\ members = InitMembers
    /\ addRequests = {}
    /\ adds = 0
    /\ notices = <<>>
    /\ removing = Null
    /\ removeRequests = {}
    /\ removes = 0
    /\ boardUpdates = {}
    /\ modalMounted = TRUE

\* ---------------------------------------------------------- toast universe
ToastIds == {1, 2}
DefaultDuration == 3000     \* duration = 3000
CloseDelay == 300           \* setTimeout(onClose, 300)
Durations == {CloseDelay, DefaultDuration}
NoTimer == -1

\* a toast the page has not rendered yet
NewToast ==
    [stage |-> "new", duration |-> DefaultDuration, mountedAt |-> 0,
     changes |-> 0, clicks |-> 0, outer |-> NoTimer, inner |-> {}, closes |-> 0,
     late |-> 0]

ToastInit ==
    /\ toastView = [t \in ToastIds |-> NewToast]
    /\ clock = 0

\* ---------------------------------------------------------------- helpers
Min(a, b) == IF a < b THEN a ELSE b

\* Array.prototype.findIndex / indexOf: first 0-based index, -1 when absent
IndexOf(s, x) ==
    IF \E i \in 1..Len(s) : s[i] = x
    THEN (CHOOSE i \in 1..Len(s) : s[i] = x /\ \A j \in 1..(i - 1) : s[j] # x) - 1
    ELSE -1

\* Array.prototype.splice(i, 1)
RemoveAt(s, i) == SubSeq(s, 1, i) \o SubSeq(s, i + 2, Len(s))

\* Array.prototype.splice(i, 0, x): the start index is clamped to the length
InsertAt(s, i, x) ==
    LET k == Min(i, Len(s))
    IN SubSeq(s, 1, k) \o <<x>> \o SubSeq(s, k + 1, Len(s))

Without(s, x) == SelectSeq(s, LAMBDA y : y # x)

\* currentBoard.lists.find(pred): the first list in board order among S, the
\* lists that satisfy pred, or Null
FirstList(S) ==
    IF \E i \in 1..Len(ListOrder) : ListOrder[i] \in S
    THEN ListOrder[CHOOSE i \in 1..Len(ListOrder) :
                     ListOrder[i] \in S /\ \A j \in 1..(i - 1) : ListOrder[j] \notin S]
    ELSE Null

\* ------------------------------------------------- store (useBoardStore)
\* variant: the task is inserted in the destination and left in the source
optimisticMoveTask_NoRemove(b, taskId, fromListId, toListId, newPosition) ==
    IF ~b.loaded \/ fromListId \notin ListIds \/ toListId \notin ListIds THEN b
    ELSE IF IndexOf(b.lists[fromListId], taskId) = -1 THEN b
    ELSE [b EXCEPT !.lists[toListId] = InsertAt(@, newPosition, taskId)]

\* optimisticMoveTask(taskId, fromListId, toListId, newPosition): remove the
\* task from the source list, insert it at newPosition in the destination
optimisticMoveTask(b, taskId, fromListId, toListId, newPosition) ==
    IF ~b.loaded \/ fromListId \notin ListIds \/ toListId \notin ListIds THEN b
    ELSE LET idx == IndexOf(b.lists[fromListId], taskId)
         IN IF idx = -1 THEN b
            ELSE LET removed == [b.lists EXCEPT ![fromListId] = RemoveAt(@, idx)]
                 IN [b EXCEPT !.lists =
                        [removed EXCEPT ![toListId] = InsertAt(@, newPosition, taskId)]]

\* variant: the event's task is inserted at the destination without a look
\* at where it already is
applyTaskMoved_Insert(b, ev) ==
    IF ~b.loaded THEN b
    ELSE [b EXCEPT !.lists[ev.list_id] = InsertAt(@, ev.position, ev.taskId)]

\* the socket's task-moved handler: the same transformation, keyed by the
\* event's task id, destination list and destination position
applyTaskMoved(b, ev) ==
    IF ~b.loaded THEN b
    ELSE LET from == FirstList({l \in ListIds : IndexOf(b.lists[l], ev.taskId) # -1})
         IN IF from = Null THEN b
            ELSE optimisticMoveTask(b, ev.taskId, from, ev.list_id, ev.position)

\* the server's move: the task leaves the list it is in and enters list_id
\* at position
ServerMove(lists, taskId, list_id, position) ==
    LET from == FirstList({l \in ListIds : IndexOf(lists[l], taskId) # -1})
    IN IF from = Null THEN lists
       ELSE LET removed == [lists EXCEPT ![from] = RemoveAt(@, IndexOf(lists[from], taskId))]
            IN [removed EXCEPT ![list_id] = InsertAt(@, position, taskId)]

\* ------------------------------------------------------- page.tsx helpers
\* variant: the first list stands in for a task that no list holds
findListContainingTask_First(b, taskId) ==
    IF ~b.loaded THEN Null
    ELSE LET l == FirstList({x \in ListIds : IndexOf(b.lists[x], taskId) # -1})
         IN IF l = Null THEN ListOrder[1] ELSE l

findListContainingTask(b, taskId) ==
    IF ~b.loaded THEN Null
    ELSE FirstList({l \in ListIds : IndexOf(b.lists[l], taskId) # -1})

\* variant: a task target resolves to the slot after the task
resolveDropTarget_After(b, overId) ==
    IF ~b.loaded THEN NoTarget
    ELSE IF overId \in ListIds
         THEN [listId |-> overId, index |-> Len(b.lists[overId])]
         ELSE LET l == FirstList({x \in ListIds : IndexOf(b.lists[x], overId) # -1})
              IN IF l # Null
                 THEN [listId |-> l, index |-> IndexOf(b.lists[l], overId) + 1]
                 ELSE NoTarget

resolveDropTarget(b, overId) ==
    IF ~b.loaded THEN NoTarget
    ELSE IF overId \in ListIds
         THEN [listId |-> overId, index |-> Len(b.lists[overId])]
         ELSE LET l == FirstList({x \in ListIds : IndexOf(b.lists[x], overId) # -1})
              IN IF l # Null
                 THEN [listId |-> l, index |-> IndexOf(b.lists[l], overId)]
                 ELSE NoTarget

\* handleDragStart: the origin recorded for taskId, NoOrigin when not found
DragStartOrigin(b, taskId) ==
    LET l == findListContainingTask(b, taskId)
    IN IF l = Null THEN NoOrigin
       ELSE [listId |-> l, position |-> IndexOf(b.lists[l], taskId)]

\* variant: the same-list return of line 117 left out
DragOverBoard_NoGuard(b, taskId, overId) ==
    IF overId = Null \/ ~b.loaded THEN b
    ELSE LET activeList == FirstList({l \in ListIds : IndexOf(b.lists[l], taskId) # -1})
             target == IF overId \in ListIds
                       THEN [listId |-> overId, index |-> Len(b.lists[overId])]
                       ELSE LET l == FirstList({x \in ListIds : IndexOf(b.lists[x], overId) # -1})
                            IN IF l # Null
                               THEN [listId |-> l, index |-> IndexOf(b.lists[l], overId)]
                               ELSE NoTarget
         IN IF activeList = Null \/ target = NoTarget THEN b
            ELSE optimisticMoveTask(b, taskId, activeList, target.listId, target.index)

\* handleDragOver: the board after the event
DragOverBoard(b, taskId, overId) ==
    IF overId = Null \/ ~b.loaded THEN b
    ELSE LET activeList == findListContainingTask(b, taskId)
             target == resolveDropTarget(b, overId)
         IN IF activeList = Null \/ target = NoTarget THEN b
            ELSE IF activeList = target.listId THEN b
            ELSE optimisticMoveTask(b, taskId, activeList, target.listId, target.index)

\* handleDragEnd, lines 144-155: the same-list branch.  [stop, board]: stop
\* is the early return of line 149
DragEndReorder(b, origin, taskId, currentList, target) ==
    LET currentIdx == IndexOf(b.lists[currentList], taskId)
    IN IF currentList # target.listId THEN [stop |-> FALSE, board |-> b]
       ELSE IF currentIdx = target.index
            THEN [stop |-> origin.listId = currentList /\ origin.position = currentIdx,
                  board |-> b]
            ELSE [stop |-> FALSE,
                  board |-> optimisticMoveTask(b, taskId, currentList,
                                               target.listId, target.index)]

\* handleDragEnd, line 163: nothing changed from the origin
UnchangedFromOrigin(origin, finalList, finalPosition) ==
    origin.listId = finalList /\ origin.position = finalPosition

\* handleDragEnd, line 166: the body of the move request
MovePayload(taskId, finalList, finalPosition, target) ==
    [taskId |-> taskId, list_id |-> finalList, position |-> finalPosition]

NoSend(b) == [board |-> b, send |-> FALSE, taskId |-> Null, list_id |-> Null,
              position |-> -1]

\* handleDragEnd up to the await: the board it leaves and the request it makes.
\* The final place (lines 158-160) is looked up through findListContainingTask,
\* a closure over the currentBoard of the render: it is the board before the
\* reorder of line 153 when the store replaced its board ("rendered") and the
\* board after it when the store changed its board in place ("updated").
DragEndResult(b, origin, taskId, overId, read) ==
    IF overId = Null \/ ~b.loaded \/ origin = NoOrigin THEN NoSend(b)
    ELSE LET currentList == findListContainingTask(b, taskId)
             target == resolveDropTarget(b, overId)
         IN IF currentList = Null \/ target = NoTarget THEN NoSend(b)
            ELSE LET re == DragEndReorder(b, origin, taskId, currentList, target)
                     seen == IF read = "updated" THEN re.board ELSE b
                     finalList == findListContainingTask(seen, taskId)
                 IN IF re.stop \/ finalList = Null THEN NoSend(re.board)
                    ELSE LET finalPosition == IndexOf(seen.lists[finalList], taskId)
                         IN IF UnchangedFromOrigin(origin, finalList, finalPosition)
                            THEN NoSend(re.board)
                            ELSE [board |-> re.board, send |-> TRUE] @@
                                 MovePayload(taskId, finalList, finalPosition, target)

\* ------------------------------------------------------------------ state
TypeOK ==
    /\ currentBoard.loaded \in BOOLEAN
    /\ activeTask \in TaskIds \cup {Null}
    /\ activeId \in TaskIds \cup {Null}
    /\ toasts \in 0..(MaxGestures + 1)
    /\ currentBoardLoading \in BOOLEAN
    /\ mounted \in BOOLEAN
    /\ \A r \in moveRequests : r.id \in 1..MaxGestures
    /\ \A f \in fetches : f.id \in 0..MaxGestures
    /\ gestures \in 0..MaxGestures
    /\ remoteLeft \subseteq OtherClientMoves
    /\ crossed \in BOOLEAN

\* the page after mounting: no board yet, the first fetchBoard in flight
Init ==
    /\ currentBoard = NoBoard
    /\ activeTask = Null
    /\ dragOrigin = NoOrigin
    /\ activeId = Null
    /\ serverBoard \in InitBoards
    /\ moveRequests = {}
    /\ fetches = {[id |-> 0, status |-> "sent", lists |-> EmptyLists]}
    /\ events = <<>>
    /\ toasts = 0
    /\ gestures = 0
    /\ remoteLeft = OtherClientMoves
    /\ crossed = FALSE
    /\ hover = NoHover
    /\ startBoard = NoBoard
    /\ currentBoardLoading = TRUE
    /\ mounted = TRUE
    /\ SearchInit
    /\ ToastInit

network == << serverBoard, moveRequests, fetches, events, toasts, remoteLeft >>

\* -------------------------------------------------------- drag handlers
\* a gesture starts on a task card the page renders
handleDragStart(taskId) ==
    /\ activeId = Null
    /\ mounted /\ ~currentBoardLoading
    /\ UNCHANGED pageVars
    /\ gestures < MaxGestures
    /\ currentBoard.loaded
    /\ findListContainingTask(currentBoard, taskId) # Null
    /\ activeId' = taskId
    /\ gestures' = gestures + 1
    /\ LET origin == DragStartOrigin(currentBoard, taskId)
       IN /\ activeTask' = IF origin = NoOrigin THEN activeTask ELSE taskId
          /\ dragOrigin' = IF origin = NoOrigin THEN dragOrigin ELSE origin
    /\ crossed' = FALSE
    /\ hover' = NoHover
    /\ startBoard' = currentBoard
    /\ UNCHANGED << currentBoard, network >>
    /\ UNCHANGED << searchVars, toastVars >>

\* variant: the cross-list move is persisted as soon as it is applied
handleDragOver_Persist(overId) ==
    /\ activeId # Null
    /\ UNCHANGED pageVars
    /\ UNCHANGED << activeTask, dragOrigin, activeId, gestures, startBoard,
                    serverBoard, fetches, events, toasts, remoteLeft >>
    /\ LET after == DragOverBoard(currentBoard, activeId, overId)
           moved == after # currentBoard
           at == DragStartOrigin(after, activeId)
       IN /\ currentBoard' = after
          /\ crossed' = (crossed \/ \E l \in ListIds :
                                       Len(after.lists[l]) # Len(currentBoard.lists[l]))
          /\ hover' = IF moved
                      THEN [over |-> overId] @@
                           [listId |-> resolveDropTarget(currentBoard, overId).listId,
                            index |-> resolveDropTarget(currentBoard, overId).index]
                      ELSE hover
          /\ moveRequests' =
                IF moved
                THEN moveRequests \cup
                       {[id |-> gestures, taskId |-> activeId,
                         list_id |-> at.listId, position |-> at.position]}
                ELSE moveRequests
    /\ UNCHANGED << searchVars, toastVars >>

handleDragOver(overId) ==
    /\ activeId # Null
    /\ UNCHANGED pageVars
    /\ UNCHANGED << activeTask, dragOrigin, activeId, gestures, startBoard, network >>
    /\ LET after == DragOverBoard(currentBoard, activeId, overId)
       IN /\ currentBoard' = after
          /\ crossed' = (crossed \/ \E l \in ListIds :
                                       Len(after.lists[l]) # Len(currentBoard.lists[l]))
          /\ hover' = IF after # currentBoard
                      THEN [over |-> overId] @@
                           [listId |-> resolveDropTarget(currentBoard, overId).listId,
                            index |-> resolveDropTarget(currentBoard, overId).index]
                      ELSE hover
    /\ UNCHANGED << searchVars, toastVars >>

\* variant: the origin and the active task are discarded only by a drop that
\* passes the first guard
handleDragEnd_KeepOrigin(overId) ==
    /\ activeId # Null
    /\ UNCHANGED pageVars
    /\ activeTask' = IF overId = Null THEN activeTask ELSE Null
    /\ dragOrigin' = IF overId = Null THEN dragOrigin ELSE NoOrigin
    /\ activeId' = Null
    /\ crossed' = FALSE
    /\ hover' = NoHover
    /\ startBoard' = NoBoard
    /\ UNCHANGED << serverBoard, fetches, events, toasts, gestures, remoteLeft >>
    /\ \E res \in { DragEndResult(currentBoard, dragOrigin, activeId, overId, read) :
                       read \in SecondReads } :
             /\ currentBoard' = res.board
             /\ moveRequests' =
                   IF res.send
                   THEN moveRequests \cup
                          {[id |-> gestures, taskId |-> res.taskId,
                            list_id |-> res.list_id, position |-> res.position]}
                   ELSE moveRequests
    /\ UNCHANGED << searchVars, toastVars >>

handleDragEnd(overId) ==
    /\ activeId # Null
    /\ UNCHANGED pageVars
    /\ activeTask' = Null
    /\ dragOrigin' = NoOrigin
    /\ activeId' = Null
    /\ crossed' = FALSE
    /\ hover' = NoHover
    /\ startBoard' = NoBoard
    /\ UNCHANGED << serverBoard, fetches, events, toasts, gestures, remoteLeft >>
    /\ \E res \in { DragEndResult(currentBoard, dragOrigin, activeId, overId, read) :
                       read \in SecondReads } :
             /\ currentBoard' = res.board
             /\ moveRequests' =
                   IF res.send
                   THEN moveRequests \cup
                          {[id |-> gestures, taskId |-> res.taskId,
                            list_id |-> res.list_id, position |-> res.position]}
                   ELSE moveRequests
    /\ UNCHANGED << searchVars, toastVars >>

\* ------------------------------------------------------ move persistence
\* handleDragEnd after the await, the promise resolved: the server accepted
\* and applied the move, and the handler does nothing more
moveTaskResolved(r) ==
    /\ r \in moveRequests
    /\ UNCHANGED pageVars
    /\ serverBoard' = ServerMove(serverBoard, r.taskId, r.list_id, r.position)
    /\ moveRequests' = moveRequests \ {r}
    /\ UNCHANGED << currentBoard, activeTask, dragOrigin, activeId, fetches, events,
                    toasts, gestures, remoteLeft, crossed,
                    hover, startBoard >>
    /\ UNCHANGED << searchVars, toastVars >>

\* variant: the catch shows the toast and makes no fetchBoard call
CatchFetches_None(r) == {}

\* the fetchBoard calls handleDragEnd's catch makes after a failure
CatchFetches(r) == {[id |-> r.id, status |-> "sent", lists |-> EmptyLists]}

\* handleDragEnd's catch, the request failed: addToast and fetchBoard.  The
\* store's fetchBoard may raise currentBoardLoading for a re-fetch until it
\* settles, as for the call of the mount, or re-fetch behind the shown board
\* (loads); the catch runs whether or not the page is still mounted
moveTaskRejected(r) ==
    /\ r \in moveRequests
    /\ moveRequests' = moveRequests \ {r}
    /\ toasts' = toasts + 1
    /\ fetches' = fetches \cup CatchFetches(r)
    /\ currentBoardLoading' \in
          { (loads /\ CatchFetches(r) # {}) \/ currentBoardLoading :
              loads \in BOOLEAN }
    /\ IF currentBoardLoading'
       THEN \* the page renders the Loader: a gesture under way is cut off
            \* with its drag context, without a drag end
            /\ activeId' = Null
            /\ crossed' = FALSE
            /\ hover' = NoHover
            /\ startBoard' = NoBoard
       ELSE UNCHANGED << activeId, crossed, hover, startBoard >>
    /\ UNCHANGED << currentBoard, activeTask, dragOrigin, serverBoard,
                    events, gestures, remoteLeft, mounted >>
    /\ UNCHANGED << searchVars, toastVars >>

\* ------------------------------------------------------------ fetchBoard
ServerAnswerFetch(f) ==
    /\ f \in fetches /\ f.status = "sent"
    /\ UNCHANGED pageVars
    /\ fetches' = (fetches \ {f}) \cup
                    {[f EXCEPT !.status = "done", !.lists = serverBoard]}
    /\ UNCHANGED << currentBoard, activeTask, dragOrigin, activeId, serverBoard,
                    moveRequests, events, toasts, gestures,
                    remoteLeft, crossed, hover, startBoard >>
    /\ UNCHANGED << searchVars, toastVars >>

\* the board a completed fetch leaves in the store
FetchedBoard(b, f) == [loaded |-> TRUE, lists |-> f.lists]

fetchBoardDone(f) ==
    /\ f \in fetches /\ f.status = "done"
    /\ fetches' = fetches \ {f}
    /\ currentBoard' = FetchedBoard(currentBoard, f)
    /\ currentBoardLoading' = FALSE
    /\ hover' = NoHover
    /\ startBoard' = NoBoard
    /\ UNCHANGED << activeTask, dragOrigin, activeId, serverBoard, moveRequests,
                    events, toasts, gestures, remoteLeft,
                    crossed, mounted >>
    /\ UNCHANGED << searchVars, toastVars >>

\* the fetchBoard of the mount rejects (lines 46-49): the error toast and
\* router.push("/")
mountFetchRejected(f) ==
    /\ f \in fetches /\ f.id = 0 /\ f.status = "sent"
    /\ fetches' = fetches \ {f}
    /\ toasts' = toasts + 1
    /\ currentBoardLoading' = FALSE
    /\ UNCHANGED << currentBoard, activeTask, dragOrigin, activeId, serverBoard,
                    moveRequests, events, gestures, remoteLeft, crossed, hover,
                    startBoard, mounted >>
    /\ UNCHANGED << searchVars, toastVars >>

\* the fetchBoard of the catch rejects (line 169): the call has no catch of
\* its own, so nothing handles the rejection; no toast, no further call, and
\* the board stays as the optimistic moves left it
recoveryFetchRejected(f) ==
    /\ f \in fetches /\ f.id > 0 /\ f.status = "sent"
    /\ fetches' = fetches \ {f}
    /\ currentBoardLoading' = FALSE
    /\ UNCHANGED << currentBoard, activeTask, dragOrigin, activeId, serverBoard,
                    moveRequests, events, toasts, gestures, remoteLeft, crossed,
                    hover, startBoard, mounted >>
    /\ UNCHANGED << searchVars, toastVars >>

\* the page unmounts (line 50): the effect cleanup calls clearCurrentBoard.
\* The page's state (activeTask) and ref (dragOrigin) go with it, and the
\* socket subscription ends: no handler of the page and no socket event runs
\* after it.  The requests in flight still settle, and their continuations
\* run against the store
unmountPage ==
    /\ mounted
    /\ mounted' = FALSE
    /\ currentBoard' = NoBoard
    /\ activeTask' = Null
    /\ dragOrigin' = NoOrigin
    /\ activeId' = Null
    /\ crossed' = FALSE
    /\ hover' = NoHover
    /\ startBoard' = NoBoard
    /\ events' = <<>>
    /\ UNCHANGED << serverBoard, moveRequests, fetches, toasts, gestures,
                    remoteLeft, currentBoardLoading >>
    /\ UNCHANGED << searchVars, toastVars >>

\* ------------------------------------------------------- other clients
\* another client's move is accepted by the server and broadcast
RemoteMove(m) ==
    /\ m \in remoteLeft
    /\ mounted
    /\ UNCHANGED pageVars
    /\ serverBoard' = ServerMove(serverBoard, m.taskId, m.list_id, m.position)
    /\ events' = Append(events, m)
    /\ remoteLeft' = remoteLeft \ {m}
    /\ UNCHANGED << currentBoard, activeTask, dragOrigin, activeId, moveRequests,
                    fetches, toasts, gestures, crossed,
                    hover, startBoard >>
    /\ UNCHANGED << searchVars, toastVars >>

\* useBoardSocket: the next task-moved event is applied to the local board
socketTaskMoved ==
    /\ events # <<>>
    /\ mounted
    /\ UNCHANGED pageVars
    /\ currentBoard' = applyTaskMoved(currentBoard, Head(events))
    /\ events' = Tail(events)
    /\ hover' = NoHover
    /\ startBoard' = NoBoard
    /\ UNCHANGED << activeTask, dragOrigin, activeId, serverBoard, moveRequests,
                    fetches, toasts, gestures, remoteLeft,
                    crossed >>
    /\ UNCHANGED << searchVars, toastVars >>

Next ==
    \/ \E t \in TaskIds : handleDragStart(t)
    \/ \E o \in OverIds : handleDragOver(o)
    \/ \E o \in OverIds : handleDragEnd(o)
    \/ \E r \in moveRequests : moveTaskResolved(r)
    \/ \E r \in moveRequests : moveTaskRejected(r)
    \/ \E f \in fetches : ServerAnswerFetch(f)
    \/ \E f \in fetches : fetchBoardDone(f)
    \/ \E f \in fetches : mountFetchRejected(f)
    \/ \E f \in fetches : recoveryFetchRejected(f)
    \/ \E m \in OtherClientMoves : RemoteMove(m)
    \/ socketTaskMoved
    \/ unmountPage

Spec == Init /\ [][Next]_vars

\* ------------------------------------------------------------ properties
\* where task t is on board b: its list and 0-based index, Null / -1 if nowhere
Holder(b, t) ==
    IF \E l \in ListIds : \E i \in 1..Len(b.lists[l]) : b.lists[l][i] = t
    THEN CHOOSE l \in ListIds : \E i \in 1..Len(b.lists[l]) : b.lists[l][i] = t
    ELSE Null

Place(b, t) ==
    LET l == Holder(b, t)
    IN IF l = Null THEN [listId |-> Null, position |-> -1]
       ELSE [listId |-> l,
             position |-> (CHOOSE i \in 1..Len(b.lists[l]) : b.lists[l][i] = t) - 1]

\* every task other than t keeps its list and its relative order
OthersKeepOrder(b1, b2, t) ==
    \A l \in ListIds : Without(b1.lists[l], t) = Without(b2.lists[l], t)

\* the hover target of a drag-over as the claim describes it: a list's
\* container stands for the end of the list, a task for its index
Described(b, o) ==
    IF o \in ListIds THEN [listId |-> o, position |-> Len(b.lists[o])]
    ELSE Place(b, o)

\* a drag-over that crosses lists moves the dragged task to the described place
CrossOverMoves ==
    \A o \in OverIds :
        (currentBoard' # currentBoard /\ handleDragOver(o)) =>
            /\ Holder(currentBoard, activeId) # Described(currentBoard, o).listId
            /\ Place(currentBoard', activeId) = Described(currentBoard, o)
            /\ OthersKeepOrder(currentBoard, currentBoard', activeId)

\* the drop on the target the task was last dragged over
DropOnHover(o) == hover # NoHover /\ hover.over = o /\ handleDragEnd(o)

\* C1 as stated: after a cross-list drag-over on a target of list B and the
\* drop on that target, the task is in B at the index resolved at the
\* drag-over (the task's index, or the end of B), the others keep their order
C1_AsStated ==
    [][ /\ CrossOverMoves
        /\ \A o \in OverIds :
             DropOnHover(o) =>
                /\ Place(currentBoard', activeId) =
                       [listId |-> hover.listId, position |-> hover.index]
                /\ OthersKeepOrder(currentBoard, currentBoard', activeId) ]_vars

\* C1 (amended): a cross-list drag-over takes the task out of its list and
\* puts it in the target list at the resolved index (the target task's index,
\* or the end for the container); the drop on that same target then leaves it
\* at the end of the list for the container and directly after the target
\* task (index i + 1) for a task target; every other task keeps its order
C1_DropOnHoverTarget ==
    [][ /\ CrossOverMoves
        /\ \A o \in OverIds :
             DropOnHover(o) =>
                /\ Place(currentBoard', activeId) =
                       [listId |-> hover.listId,
                        position |-> IF o \in ListIds THEN hover.index
                                     ELSE hover.index + 1]
                /\ o \in TaskIds =>
                       Place(currentBoard', o) =
                           [listId |-> hover.listId, position |-> hover.index]
                /\ OthersKeepOrder(currentBoard, currentBoard', activeId) ]_vars

\* a task dragged from list A over a task of list B stands at that task's
\* index, and the drop on that task can happen and puts it right after it
C1_Witness ==
    /\ activeId # Null
    /\ hover.over \in TaskIds
    /\ dragOrigin.listId = "A" /\ hover.listId = "B"
    /\ Place(currentBoard, activeId) = [listId |-> "B", position |-> hover.index]
    /\ ENABLED (handleDragEnd(hover.over) /\
                Place(currentBoard', hover.over).position = hover.index)

\* the drop of a task that still stands where the gesture picked it up
DropFromOrigin(o) ==
    handleDragEnd(o) /\ dragOrigin = Place(currentBoard, activeId)

\* C2: a task picked up in list A and dropped on another task of A (at index
\* j, not the task's own index) ends at index j, the other tasks of A keep
\* their order, and the drop issues exactly one move request
C2_SameListReorder ==
    [][ \A o \in TaskIds :
          ( /\ DropFromOrigin(o)
            /\ o # activeId
            /\ Holder(currentBoard, o) = Holder(currentBoard, activeId) ) =>
              /\ Place(currentBoard', activeId) = Place(currentBoard, o)
              /\ OthersKeepOrder(currentBoard, currentBoard', activeId)
              /\ moveRequests \subseteq moveRequests'
              /\ Cardinality(moveRequests' \ moveRequests) = 1 ]_vars

\* C3: a drag end that leaves the task in the list and at the index recorded
\* at drag start issues no move request and no board re-fetch
C3_NoRequestAtOrigin ==
    [][ \A o \in OverIds :
          ( /\ handleDragEnd(o)
            /\ dragOrigin # NoOrigin
            /\ Place(currentBoard', activeId) = dragOrigin ) =>
              /\ moveRequests' = moveRequests
              /\ fetches' = fetches ]_vars

\* C4: a move request issued at drag end carries the dragged task's id, the
\* list that holds the task in the local board as the handler leaves it, and
\* the task's index in that list (within 0 .. length - 1)
C4_RequestIsFinalPlace ==
    [][ \A o \in OverIds :
          handleDragEnd(o) =>
             \A r \in moveRequests' \ moveRequests :
                /\ r.taskId = activeId
                /\ [listId |-> r.list_id, position |-> r.position] =
                       Place(currentBoard', activeId)
                /\ r.position >= 0
                /\ r.position < Len(currentBoard'.lists[r.list_id]) ]_vars

\* C5: a failed move request is followed by one error notification and one
\* fetchBoard call and is not sent again; a successful one is followed by no
\* fetch, no notification and no change of the local board
C5_FailureRefetchesOnce ==
    [][ \A r \in moveRequests :
          /\ moveTaskRejected(r) =>
                /\ toasts' = toasts + 1
                /\ fetches \subseteq fetches'
                /\ Cardinality(fetches' \ fetches) = 1
                /\ moveRequests' = moveRequests \ {r}
          /\ moveTaskResolved(r) =>
                /\ toasts' = toasts
                /\ fetches' = fetches
                /\ currentBoard' = currentBoard
                /\ moveRequests' = moveRequests \ {r} ]_vars

\* one request has failed and been answered by a toast and a re-fetch, and
\* another request is still awaiting its answer
C5_Witness ==
    /\ toasts = 1
    /\ \E f \in fetches : f.id = 1
    /\ \E r \in moveRequests : r.id = 2

\* no list or task of board b carries the id o
NoValidTarget(b, o) ==
    o = Null \/ (o \notin ListIds /\ Holder(b, o) = Null)

\* C7: a gesture that applied a cross-list optimistic move and ends without a
\* valid drop target makes a board re-fetch
C7_CancelAfterCrossRefetches ==
    [][ \A o \in OverIds :
          (handleDragEnd(o) /\ crossed /\ NoValidTarget(currentBoard, o)) =>
              \/ fetches' # fetches
              \/ moveRequests' # moveRequests ]_vars

\* C8: a drag end with no 'over' element issues no move request, and if the
\* gesture made no cross-list move the local board is the board of drag start
C8_ReleaseOutside ==
    [][ handleDragEnd(Null) =>
          /\ moveRequests' = moveRequests
          /\ (~crossed /\ startBoard # NoBoard) => currentBoard' = startBoard ]_vars

\* a gesture that has not crossed lists is about to be released outside
C8_Witness ==
    /\ activeId # Null
    /\ ~crossed
    /\ startBoard # NoBoard
    /\ Len(currentBoard.lists[Holder(currentBoard, activeId)]) > 1
    /\ ENABLED (handleDragEnd(Null) /\ currentBoard' = startBoard)

\* C9: on every board the client reaches, a drag-over event applied a second
\* time with the same active task and the same target changes nothing (an
\* event that changed nothing the first time is the same event again)
C9_DragOverIdempotent ==
    [] ( currentBoard.loaded =>
           \A t \in TaskIds, o \in OverIds :
               \A once \in {DragOverBoard(currentBoard, t, o)} :
                   \/ once = currentBoard
                   \/ DragOverBoard(once, t, o) = once )

\* the dragged task was just moved in front of a task of another list, and
\* the same drag-over event again leaves the board as it is
C9_Witness ==
    /\ activeId # Null
    /\ hover.over \in TaskIds
    /\ Place(currentBoard, activeId) =
           [listId |-> hover.listId, position |-> hover.index]
    /\ Len(currentBoard.lists[hover.listId]) > 2
    /\ DragOverBoard(currentBoard, activeId, hover.over) = currentBoard

\* C10: drag start and drag over make no move request and no fetch and
\* drag over changes nothing but the board; a move request is made only by a
\* drag end, a fetch only by the failure branch of a drag end
C10_NoNetworkBeforeDrop ==
    [][ /\ \/ UNCHANGED << moveRequests, fetches, toasts, currentBoard >>
           \/ \A t \in TaskIds : ~handleDragStart(t)
        /\ \/ UNCHANGED << moveRequests, fetches, toasts, activeTask,
                           dragOrigin >>
           \/ \A o \in OverIds : ~handleDragOver(o)
        /\ ~(moveRequests' \subseteq moveRequests) =>
               \E o \in OverIds : handleDragEnd(o)
        /\ (\E f \in fetches' \ fetches : f.status = "sent") =>
               \E r \in moveRequests : moveTaskRejected(r) ]_vars

\* a gesture has moved its task to another list and nothing has been sent
C10_Witness ==
    /\ activeId # Null
    /\ crossed
    /\ gestures = 1
    /\ toasts = 0
    /\ moveRequests = {}
    /\ fetches = {}

\* the number of places (list, index) at which board b holds task t
Occurrences(b, t) ==
    Cardinality({ <<l, i>> \in ListIds \X (1..Cardinality(TaskIds) + 1) :
                    i <= Len(b.lists[l]) /\ b.lists[l][i] = t })

\* C11: in every state of the client with a board loaded, each task id is in
\* exactly one list at exactly one index
C11_EachTaskOnce ==
    currentBoard.loaded => \A t \in TaskIds : Occurrences(currentBoard, t) = 1

\* the second gesture has moved its task to the other list, after an earlier
\* gesture, and every task is still held once
C11_Witness ==
    /\ gestures = 2
    /\ crossed
    /\ Len(currentBoard.lists["B"]) >= 2
    /\ \A t \in TaskIds : Occurrences(currentBoard, t) = 1

\* the task-moved events the channel can carry: a position up to the end of
\* the longest list the other tasks can make
TaskMovedEvents ==
    [taskId : TaskIds, list_id : ListIds,
     position : 0..(Cardinality(TaskIds) - 1)]

\* list l of board b holds task t at index i (0-based)
HoldsAt(b, l, i, t) == i < Len(b.lists[l]) /\ b.lists[l][i + 1] = t

\* C12: a task-moved event for a task that already is in the event's list at
\* the event's position changes nothing, and applying an event twice gives
\* the board that applying it once gives
C12_TaskMovedIdempotent ==
    [] ( currentBoard.loaded =>
           \A ev \in TaskMovedEvents :
               \A once \in {applyTaskMoved(currentBoard, ev)} :
                  /\ HoldsAt(currentBoard, ev.list_id, ev.position, ev.taskId)
                       => once = currentBoard
                  /\ \/ once = currentBoard
                     \/ applyTaskMoved(once, ev) = once )

\* the event of another client's move waits on the channel while the local
\* board already holds the task at the event's place, moved there by a drag
C12_Witness ==
    /\ currentBoard.loaded
    /\ events # <<>>
    /\ gestures >= 1
    /\ Place(currentBoard, Head(events).taskId) =
           [listId |-> Head(events).list_id, position |-> Head(events).position]
    /\ ENABLED (socketTaskMoved /\ currentBoard' = currentBoard)

\* nothing is in flight and no gesture is in progress: every move request
\* has been answered, every broadcast delivered and applied, every fetch done
Quiescent ==
    /\ currentBoard.loaded
    /\ activeId = Null
    /\ moveRequests = {}
    /\ fetches = {}
    /\ events = <<>>

\* the tasks a list holds, without their order
TasksIn(seq) == { seq[i] : i \in 1..Len(seq) }

\* C13: once nothing is in flight and no gesture is in progress, the client's
\* lists hold the same task sequences as the server's.  Stated for the case
\* the claim names: no request of the client has failed, and the client and
\* the server agree on which tasks a list holds after their moves met there
C13_ConvergesToServer ==
    (Quiescent /\ toasts = 0) =>
        \A l \in ListIds :
            TasksIn(currentBoard.lists[l]) = TasksIn(serverBoard[l]) =>
                currentBoard.lists[l] = serverBoard[l]

\* C14: resolveDropTarget answers a list id with that list and its number of
\* tasks, the id of a task held by a list with that list and the task's
\* index there, and anything else, or any id while no board is loaded, with no
\* target; a returned index lies between 0 and the target list's length
C14_ResolveDropTarget ==
    \A o \in OverIds \ {Null} :
        LET r == resolveDropTarget(currentBoard, o)
            h == Holder(currentBoard, o)
        IN /\ ~currentBoard.loaded => r = NoTarget
           /\ (currentBoard.loaded /\ o \in ListIds) =>
                  r = [listId |-> o, index |-> Len(currentBoard.lists[o])]
           /\ (currentBoard.loaded /\ o \notin ListIds /\ h # Null) =>
                  /\ r.listId = h
                  /\ r.index \in 0..(Len(currentBoard.lists[h]) - 1)
                  /\ currentBoard.lists[h][r.index + 1] = o
           /\ (currentBoard.loaded /\ o \notin ListIds /\ h = Null) => r = NoTarget
           /\ r # NoTarget =>
                  /\ r.listId \in ListIds
                  /\ r.index \in 0..Len(currentBoard.lists[r.listId])

\* a gesture is under way over a board whose two lists both hold tasks, so
\* list ids, ids of held tasks and an unknown id all resolve
C14_Witness ==
    /\ currentBoard.loaded
    /\ activeId # Null
    /\ \A l \in ListIds : Len(currentBoard.lists[l]) >= 1
    /\ resolveDropTarget(currentBoard, "B").index >= 1
    /\ \E t \in TaskIds : /\ resolveDropTarget(currentBoard, t).listId = "B"
                          /\ resolveDropTarget(currentBoard, t).index >= 1
    /\ resolveDropTarget(currentBoard, UnknownId) = NoTarget

\* the move request of the gesture under way, or of the last one, is in flight
RequestOut == \E r \in moveRequests : r.id = gestures

\* a drag handler of the gesture under way changes the board
OptimisticMutation ==
    /\ currentBoard' # currentBoard
    /\ \E o \in OverIds : handleDragOver(o) \/ handleDragEnd(o)

\* C16: a gesture's optimistic mutations all come before its move request and
\* it issues at most one: a request is issued only by the drag end, one at a
\* time, under the number of the gesture it ends and which has none yet; no
\* drag handler changes the board once that request is out; and the next
\* drag start opens a gesture under a new number
C16_MutateThenOneRequest ==
    [][ /\ moveRequests' \ moveRequests # {} =>
              /\ \E o \in OverIds : handleDragEnd(o)
              /\ Cardinality(moveRequests' \ moveRequests) = 1
              /\ \A r \in moveRequests' \ moveRequests : r.id = gestures
              /\ ~RequestOut
              /\ activeId # Null /\ activeId' = Null
        /\ ~RequestOut \/ ~OptimisticMutation
        /\ RequestOut => activeId = Null
        /\ (activeId = Null /\ activeId' # Null) => gestures' = gestures + 1
      ]_vars

\* the second gesture has moved its task across lists while the request of
\* the first is still in flight, and its drop is about to issue its own
C16_Witness ==
    /\ gestures = 2
    /\ crossed
    /\ currentBoard # startBoard
    /\ \E r \in moveRequests : r.id = 1
    /\ ENABLED (\E o \in OverIds : handleDragEnd(o) /\ moveRequests' # moveRequests)

\* a step of an action other than the drag start, the drag end and the
\* unmount of the page
OtherStep ==
    \/ \E o \in OverIds : handleDragOver(o)
    \/ \E r \in moveRequests : moveTaskResolved(r) \/ moveTaskRejected(r)
    \/ \E f \in fetches :
          \/ ServerAnswerFetch(f) \/ fetchBoardDone(f)
          \/ mountFetchRejected(f) \/ recoveryFetchRejected(f)
    \/ \E m \in OtherClientMoves : RemoteMove(m)
    \/ socketTaskMoved

\* C17: the drag start records the origin and the active task of its own
\* gesture, over whatever an earlier gesture left; every drag end, whatever
\* its branch, reads an origin and leaves both empty; apart from the unmount
\* of the page nothing else writes them, the settling of the request
\* included, so the origin a drag end reads is the one its own drag start
\* recorded
C17_IntentDiscarded ==
    [][ /\ \/ /\ dragOrigin' = Place(currentBoard, activeId')
              /\ activeTask' = activeId'
           \/ ~ \E t \in TaskIds : handleDragStart(t)
        /\ \/ /\ dragOrigin # NoOrigin /\ activeTask = activeId
              /\ dragOrigin' = NoOrigin /\ activeTask' = Null
           \/ ~ \E o \in OverIds : handleDragEnd(o)
        /\ UNCHANGED << dragOrigin, activeTask >> \/ ~OtherStep
      ]_vars

\* two gestures have ended, a request of theirs has failed and been handled,
\* and no origin or active task is left
C17_Witness ==
    /\ gestures = 2
    /\ activeId = Null
    /\ toasts >= 1
    /\ moveRequests = {}
    /\ dragOrigin = NoOrigin
    /\ activeTask = Null
    /\ currentBoard.loaded

\* ------------------------------------------- gestures over a stale board
\* The drag handlers guard against a board that changed under the gesture:
\* tasks may have been removed by other clients since the drag start.  This
\* specification runs the handlers from every such state of a gesture in
\* progress.  A gesture needs the DndContext, which the page renders only
\* over a loaded board (line 189), so every board here is loaded; and it
\* starts on a card of the board, for which handleDragStart records an origin
\* (lines 91-98), so every gesture here has one: the place the task had at
\* drag start, whatever the board holds now.
TaskOrder == << "T1", "T2", "T3" >>
Gone == "gone"

\* the board that shows each task in the list f gives it, or not at all
BoardOf(f) ==
    [loaded |-> TRUE,
     lists |-> [l \in ListIds |-> LET In(t) == f[t] = l
                                  IN SelectSeq(TaskOrder, In)]]

StaleBoards == { BoardOf(f) : f \in [TaskIds -> ListIds \cup {Gone}] }

StaleOrigins == [listId : ListIds, position : 0..(Cardinality(TaskIds) - 1)]

InitStale ==
    /\ currentBoard \in StaleBoards
    /\ activeId \in TaskIds
    /\ dragOrigin \in StaleOrigins
    /\ activeTask = activeId
    /\ serverBoard \in InitBoards
    /\ moveRequests = {}
    /\ fetches = {}
    /\ events = <<>>
    /\ toasts = 0
    /\ gestures = 1
    /\ remoteLeft = {}
    /\ crossed = FALSE
    /\ hover = NoHover
    /\ startBoard = NoBoard
    /\ currentBoardLoading = FALSE
    /\ mounted = TRUE
    /\ SearchInit
    /\ ToastInit

NextStale ==
    \/ \E t \in TaskIds : handleDragStart(t)
    \/ \E o \in OverIds : handleDragOver(o)
    \/ \E o \in OverIds : handleDragEnd(o)

SpecStale == InitStale /\ [][NextStale]_vars

\* the dragged task is in no list of the local board (none is, were no board
\* loaded: the first guard of both handlers)
TaskGone == ~currentBoard.loaded \/ Holder(currentBoard, activeId) = Null

\* the event changed nothing and asked nothing of the server
Ignored ==
    /\ currentBoard' = currentBoard
    /\ moveRequests' = moveRequests
    /\ fetches' = fetches
    /\ toasts' = toasts

\* a gesture in progress has a loaded board and an origin: the other two
\* cases C18 names do not arise in the page
GestureHasOrigin ==
    activeId # Null => (currentBoard.loaded /\ dragOrigin # NoOrigin)

\* C18: a drag over or a drag end whose task is in no list of the local
\* board, or whose board is not loaded, or whose gesture captured no origin,
\* makes no optimistic mutation, issues no request and raises no error
C18_StaleEventsIgnored ==
    [][ \A o \in OverIds :
            ((TaskGone \/ dragOrigin = NoOrigin) /\ (handleDragOver(o) \/ handleDragEnd(o)))
                => Ignored
      ]_vars

\* the dragged task has left the board while the other list still holds a
\* task, and both a drag over and a drop on that task are ignored
C18_Witness ==
    /\ activeId # Null
    /\ dragOrigin # NoOrigin
    /\ Holder(currentBoard, activeId) = Null
    /\ \E o \in TaskIds :
          /\ Holder(currentBoard, o) # Null
          /\ ENABLED (handleDragOver(o) /\ currentBoard' = currentBoard)
          /\ ENABLED (handleDragEnd(o) /\ currentBoard' = currentBoard
                        /\ moveRequests' = moveRequests)

\* the drag-over event on o resolves to the list that holds the dragged task
SameListOver(o) ==
    /\ handleDragOver(o)
    /\ Holder(currentBoard, activeId) # Null
    /\ resolveDropTarget(currentBoard, o).listId = Holder(currentBoard, activeId)

\* C19: a drag over that resolves to the list holding the dragged task
\* changes nothing of the local state; a drag over never reorders a list
\* that keeps its tasks; and a drag over that changes the board had a target
\* in another list and took the dragged task there
C19_SameListOverNoChange ==
    [][ /\ \A o \in OverIds :
              \/ /\ currentBoard' = currentBoard
                 /\ UNCHANGED << activeTask, dragOrigin, activeId, network >>
              \/ ~ ( /\ handleDragOver(o)
                     /\ Holder(currentBoard, activeId) # Null
                     /\ resolveDropTarget(currentBoard, o).listId =
                            Holder(currentBoard, activeId) )
        /\ \/ \A l \in ListIds :
                 TasksIn(currentBoard'.lists[l]) = TasksIn(currentBoard.lists[l])
                     => currentBoard'.lists[l] = currentBoard.lists[l]
           \/ \A o \in OverIds : ~handleDragOver(o)
        /\ currentBoard' # currentBoard =>
              \A o \in OverIds :
                 handleDragOver(o) =>
                    /\ resolveDropTarget(currentBoard, o).listId #
                           Holder(currentBoard, activeId)
                    /\ Holder(currentBoard', activeId) =
                           resolveDropTarget(currentBoard, o).listId
      ]_vars

\* the dragged task, already moved across lists by this gesture, hovers over
\* another task of the list it is in now: the drag over leaves the board,
\* and the drop there would reorder the list
C19_Witness ==
    /\ activeId # Null
    /\ crossed
    /\ \E o \in TaskIds \ {activeId} :
          /\ Holder(currentBoard, o) = Holder(currentBoard, activeId)
          /\ ENABLED (SameListOver(o) /\ currentBoard' = currentBoard)
          /\ ENABLED (handleDragEnd(o) /\ currentBoard' # currentBoard)

\* the drop on the container of l, the list that holds the dragged task
DropOnOwnContainer(l) ==
    /\ handleDragEnd(l)
    /\ currentBoard.loaded
    /\ dragOrigin # NoOrigin
    /\ Holder(currentBoard, activeId) = l

\* C20: a drop on the container of the list the task is in puts the task
\* last in that list, the others keeping their order; the request it
\* issues carries the last index, length - 1, and not the length; it issues
\* none when the task was last already and the gesture started there, and
\* one when the gesture started anywhere else
C20_DropOnOwnContainer ==
    [][ \A l \in ListIds :
          DropOnOwnContainer(l) =>
              LET last == Len(currentBoard.lists[l]) - 1
                  sent == moveRequests' \ moveRequests
              IN /\ Place(currentBoard', activeId) = [listId |-> l, position |-> last]
                 /\ Len(currentBoard'.lists[l]) = last + 1
                 /\ OthersKeepOrder(currentBoard, currentBoard', activeId)
                 /\ \A r \in sent : /\ r.taskId = activeId
                                    /\ r.list_id = l
                                    /\ r.position = last
                 /\ ( /\ Place(currentBoard, activeId) = [listId |-> l, position |-> last]
                      /\ dragOrigin = [listId |-> l, position |-> last] ) => sent = {}
                 /\ dragOrigin # [listId |-> l, position |-> last] =>
                        Cardinality(sent) = 1
      ]_vars

\* ======================================================== member search
\* BoardMembersModal: the debounced user search, handleAdd and handleRemove.
\* The server's user directory and the store's addMember and removeMember are
\* collaborators of the modal.

\* String.prototype.trim on a sequence of characters
RECURSIVE TrimStart(_)
TrimStart(q) ==
    IF q = <<>> THEN q
    ELSE IF Head(q) = " " THEN TrimStart(Tail(q)) ELSE q

RECURSIVE TrimEnd(_)
TrimEnd(q) ==
    IF q = <<>> THEN q
    ELSE IF q[Len(q)] = " " THEN TrimEnd(SubSeq(q, 1, Len(q) - 1)) ELSE q

Trim(q) == TrimEnd(TrimStart(q))

\* query.trim().length < 2
IsShort(q) == Len(Trim(q)) < 2

\* the users the server finds for a trimmed query
UsersFound(q) ==
    IF q = <<"a", "l">> THEN <<"u1", "u3", "u4">>
    ELSE IF q = <<"b", "o">> THEN <<"u2", "u4">>
    ELSE <<>>

\* existingIds: the owner and the members, as the effect run saw them
ExistingIds(mem) == {Owner} \cup mem

\* users.filter((u) => !existingIds.has(u.id))
FilterUsers(users, existing) ==
    LET Keep(u) == u \notin existing
    IN SelectSeq(users, Keep)

\* prev.filter((u) => u.id !== user.id)
DropUser(users, userId) ==
    LET Keep(u) == u # userId
    IN SelectSeq(users, Keep)

\* the timer an effect run starts: the closure over query and board.  live
\* says that the board of the closure is the board object the store holds,
\* existing is what the closure reads from its board (lines 67-70)
NewTimer(q, mem) ==
    [query |-> q, existing |-> ExistingIds(mem), live |-> TRUE]

\* variant: the pending timer is left running
ClearDebounce_Keep(ts, ref) == ts

\* if (debounceRef.current) clearTimeout(debounceRef.current)
ClearDebounce(ts, ref) == { t \in ts : t # ref }

\* one run of the search effect (with the cleanup of the run before it) for
\* query q and members mem, res being the results as they stand, ts the
\* pending timers and ref the timer debounceRef holds
SearchEffect(q, mem, res, ts, ref) ==
    LET cleared == ClearDebounce(ts, ref)
    IN IF IsShort(q)
       THEN /\ timers' = cleared
            /\ debounceRef' = ref
            /\ results' = <<>>
            /\ searching' = FALSE
       ELSE /\ timers' = cleared \cup {NewTimer(q, mem)}
            /\ debounceRef' = NewTimer(q, mem)
            /\ results' = res
            /\ searching' = TRUE

\* the calls the modal has made to the server so far: searchUsers, addMember
\* and removeMember
Calls == searches + adds + removes

\* the user edits the search input
setQuery(q) ==
    /\ modalMounted
    /\ q # query
    /\ query' = q
    /\ SearchEffect(q, members, results, timers, debounceRef)
    /\ UNCHANGED << adding, searchRequests, searches, members, addRequests,
                    adds, notices, removing, removeRequests, removes,
                    boardUpdates, modalMounted, boardVars, toastVars >>

\* the parent closes the modal and opens it again: the effect on isOpen
\* empties the query and the results, and the search effect runs if the
\* query changed by it
openModal ==
    /\ modalMounted
    /\ query' = <<>>
    /\ IF query # <<>>
       THEN SearchEffect(<<>>, members, <<>>, timers, debounceRef)
       ELSE /\ results' = <<>>
            /\ UNCHANGED << searching, debounceRef, timers >>
    /\ UNCHANGED << adding, searchRequests, searches, members, addRequests,
                    adds, notices, removing, removeRequests, removes,
                    boardUpdates, modalMounted, boardVars, toastVars >>

\* the modal unmounts: the cleanup of the search effect (lines 79-81) clears
\* the timer debounceRef holds and leaves the ref as it is.  The state of
\* the component goes with it; the calls in flight still settle, and what
\* their callbacks set on the unmounted component is dropped
unmountModal ==
    /\ modalMounted
    /\ modalMounted' = FALSE
    /\ timers' = ClearDebounce(timers, debounceRef)
    /\ debounceRef' = debounceRef
    /\ query' = <<>>
    /\ results' = <<>>
    /\ searching' = FALSE
    /\ adding' = Null
    /\ removing' = Null
    /\ UNCHANGED << searchRequests, searches, members, addRequests, adds,
                    notices, removeRequests, removes, boardUpdates, boardVars,
                    toastVars >>

\* what a state update leaves in results: res on the mounted component,
\* nothing new on an unmounted one
Shown(res) == IF modalMounted THEN res ELSE results

\* a debounce timer fires after 300 ms and calls searchUsers
debounceFires(t) ==
    /\ t \in timers
    /\ Calls < MaxCalls
    /\ timers' = timers \ {t}
    /\ searches' = searches + 1
    /\ searchRequests' = searchRequests \cup
            {[id |-> searches + 1, q |-> Trim(t.query), existing |-> t.existing,
              live |-> t.live]}
    /\ UNCHANGED << query, results, searching, adding, debounceRef, members,
                    addRequests, adds, notices, removing, removeRequests,
                    removes, boardUpdates, modalMounted, boardVars, toastVars >>

\* what the callback stores when searchUsers resolves
SearchResults(r) == FilterUsers(UsersFound(r.q), r.existing)

\* searchUsers resolved: try body and finally
searchUsersResolved(r) ==
    /\ r \in searchRequests
    /\ searchRequests' = searchRequests \ {r}
    /\ results' = Shown(SearchResults(r))
    /\ searching' = FALSE
    /\ UNCHANGED << query, adding, debounceRef, timers, searches, members,
                    addRequests, adds, notices, removing, removeRequests,
                    removes, boardUpdates, modalMounted, boardVars, toastVars >>

\* searchUsers rejected: catch and finally
searchUsersRejected(r) ==
    /\ r \in searchRequests
    /\ searchRequests' = searchRequests \ {r}
    /\ results' = Shown(<<>>)
    /\ searching' = FALSE
    /\ UNCHANGED << query, adding, debounceRef, timers, searches, members,
                    addRequests, adds, notices, removing, removeRequests,
                    removes, boardUpdates, modalMounted, boardVars, toastVars >>

\* how the store brings a settled addMember or removeMember to the board the
\* modal is given: a new board with a new members array at once ("replace")
\* or in a later step ("after"), the members array of the same board changed
\* in place ("inplace"), or not at all ("none")
StoreUpdates == {"replace", "after", "inplace", "none"}

\* board.members once the store has applied the update
MembersAfter(mem, upd) ==
    IF upd.op = "add" THEN mem \cup {upd.user} ELSE mem \ {upd.user}

\* closure c once the store holds a new board object: c keeps the board it
\* was made with, which no later update touches
Unshared(c) == [c EXCEPT !.live = FALSE]

\* closure c once the members of the board the store holds were changed in
\* place to mem2: c reads them if its board is that very object, and what it
\* read before if its board is an earlier one
Aliased(c, mem2) ==
    IF c.live THEN [c EXCEPT !.existing = ExistingIds(mem2)] ELSE c

\* the store put a new board with the members mem in place: the closures made
\* so far keep the old one, and the new members array re-runs the search
\* effect of the mounted modal, res being the results as they stand
NewBoard(mem, res) ==
    /\ searchRequests' = { Unshared(r) : r \in searchRequests }
    /\ IF modalMounted
       THEN SearchEffect(query, mem, res, { Unshared(t) : t \in timers },
                         IF debounceRef \in timers THEN Unshared(debounceRef)
                         ELSE debounceRef)
       ELSE UNCHANGED << results, searching, debounceRef, timers >>

\* the store's part of a settled call with the effect run a new members
\* array causes, res being the results as the handler leaves them
StoreApplies(upd, how, res) ==
    CASE how = "replace" ->
            /\ members' = MembersAfter(members, upd)
            /\ NewBoard(members', res)
            /\ UNCHANGED boardUpdates
      [] how = "after" ->
            /\ boardUpdates' = boardUpdates \cup {upd}
            /\ results' = res
            /\ UNCHANGED << members, searching, debounceRef, timers,
                            searchRequests >>
      [] how = "inplace" ->
            /\ members' = MembersAfter(members, upd)
            /\ results' = res
            /\ timers' = { Aliased(t, members') : t \in timers }
            /\ debounceRef' =
                  IF debounceRef \in timers
                  THEN Aliased(debounceRef, members')
                  ELSE debounceRef
            /\ searchRequests' = { Aliased(r, members') : r \in searchRequests }
            /\ UNCHANGED << searching, boardUpdates >>
      [] how = "none" ->
            /\ results' = res
            /\ UNCHANGED << members, searching, debounceRef, timers,
                            searchRequests, boardUpdates >>

\* the store brings a membership change to the board after the call that
\* caused it has returned
storeUpdateLands(upd) ==
    /\ upd \in boardUpdates
    /\ boardUpdates' = boardUpdates \ {upd}
    /\ members' = MembersAfter(members, upd)
    /\ NewBoard(members', results)
    /\ UNCHANGED << query, adding, searches, addRequests, adds, notices,
                    removing, removeRequests, removes, modalMounted, boardVars,
                    toastVars >>

\* the add button of a listed user (the list shows for a query of two or
\* more characters while not searching, lines 152-165)
handleAdd(u) ==
    /\ modalMounted
    /\ ~IsShort(query)
    /\ ~searching
    /\ \E i \in 1..Len(results) : results[i] = u
    /\ adding # u
    /\ Calls < MaxCalls
    /\ adding' = u
    /\ adds' = adds + 1
    /\ addRequests' = addRequests \cup {[id |-> adds + 1, user |-> u]}
    /\ UNCHANGED << query, results, searching, debounceRef, timers,
                    searchRequests, searches, members, notices, removing,
                    removeRequests, removes, boardUpdates, modalMounted,
                    boardVars, toastVars >>

\* setResults((prev) => prev.filter(...)) after a successful add
AfterAdd(users, userId) == DropUser(users, userId)

\* addMember resolved: the store's update of the board, the success toast,
\* the removal from the results and the finally
addMemberResolved(a) ==
    /\ a \in addRequests
    /\ addRequests' = addRequests \ {a}
    /\ notices' = Append(notices, "success")
    /\ adding' = Null
    /\ \E how \in StoreUpdates :
          StoreApplies([op |-> "add", user |-> a.user, id |-> a.id], how,
                       Shown(AfterAdd(results, a.user)))
    /\ UNCHANGED << query, searches, adds, removing, removeRequests, removes,
                    modalMounted, boardVars, toastVars >>

\* addMember rejected: the error toast and the finally
addMemberRejected(a) ==
    /\ a \in addRequests
    /\ addRequests' = addRequests \ {a}
    /\ notices' = Append(notices, "error")
    /\ adding' = Null
    /\ UNCHANGED << query, results, searching, debounceRef, timers,
                    searchRequests, searches, members, adds, removing,
                    removeRequests, removes, boardUpdates, modalMounted,
                    boardVars, toastVars >>

\* the remove button of a listed member, the confirm dialog accepted
handleRemove(m) ==
    /\ modalMounted
    /\ m \in members
    /\ removing # m
    /\ Calls < MaxCalls
    /\ removing' = m
    /\ removes' = removes + 1
    /\ removeRequests' = removeRequests \cup {[id |-> removes + 1, user |-> m]}
    /\ UNCHANGED << query, results, searching, adding, debounceRef, timers,
                    searchRequests, searches, members, addRequests, adds,
                    notices, boardUpdates, modalMounted, boardVars, toastVars >>

\* removeMember resolved: the store's update of the board, the success toast
\* and the finally
removeMemberResolved(r) ==
    /\ r \in removeRequests
    /\ removeRequests' = removeRequests \ {r}
    /\ notices' = Append(notices, "success")
    /\ removing' = Null
    /\ \E how \in StoreUpdates :
          StoreApplies([op |-> "remove", user |-> r.user, id |-> r.id], how,
                       results)
    /\ UNCHANGED << query, adding, searches, addRequests, adds, removes,
                    modalMounted, boardVars, toastVars >>

\* removeMember rejected: the error toast and the finally
removeMemberRejected(r) ==
    /\ r \in removeRequests
    /\ removeRequests' = removeRequests \ {r}
    /\ notices' = Append(notices, "error")
    /\ removing' = Null
    /\ UNCHANGED << query, results, searching, adding, debounceRef, timers,
                    searchRequests, searches, members, addRequests, adds,
                    removes, boardUpdates, modalMounted, boardVars, toastVars >>

NextSearch ==
    \/ \E q \in Queries : setQuery(q)
    \/ openModal
    \/ unmountModal
    \/ \E t \in timers : debounceFires(t)
    \/ \E r \in searchRequests : searchUsersResolved(r)
    \/ \E r \in searchRequests : searchUsersRejected(r)
    \/ \E u \in UserIds : handleAdd(u)
    \/ \E a \in addRequests : addMemberResolved(a)
    \/ \E a \in addRequests : addMemberRejected(a)
    \/ \E m \in UserIds : handleRemove(m)
    \/ \E r \in removeRequests : removeMemberResolved(r)
    \/ \E r \in removeRequests : removeMemberRejected(r)
    \/ \E upd \in boardUpdates : storeUpdateLands(upd)

SpecSearch == Init /\ [][NextSearch]_vars

\* the search state stays within its types
SearchTypeOK ==
    /\ query \in Queries
    /\ searching \in BOOLEAN
    /\ adding \in UserIds \cup {Null}
    /\ removing \in UserIds \cup {Null}
    /\ modalMounted \in BOOLEAN
    /\ searches \in 0..MaxCalls
    /\ adds \in 0..MaxCalls
    /\ removes \in 0..MaxCalls
    /\ Calls <= MaxCalls
    /\ members \subseteq UserIds
    /\ \A upd \in boardUpdates : upd.user \in UserIds

\* the length of q between its first and its last character that is no space
TrimmedLength(q) ==
    LET solid == { i \in 1..Len(q) : q[i] # " " }
    IN IF solid = {} THEN 0
       ELSE (CHOOSE i \in solid : \A j \in solid : j <= i)
            - (CHOOSE i \in solid : \A j \in solid : i <= j) + 1

\* C21: a change of the query cancels the pending timer, so at most one timer
\* is pending and a timer that fires calls searchUsers for the query as it
\* stands; a query of trimmed length below 2 starts no timer and no search,
\* empties the results and sets searching to false; the unmount of the modal
\* leaves no timer pending and calls nothing
C21_DebounceSupersedes ==
    [][ /\ Cardinality(timers') <= 1
        /\ \A q \in Queries :
              setQuery(q) =>
                  /\ timers \cap timers' = {}
                  /\ searchRequests' = searchRequests /\ searches' = searches
                  /\ IF TrimmedLength(q) < 2
                     THEN timers' = {} /\ results' = <<>> /\ searching' = FALSE
                     ELSE \A t \in timers' : t.query = q
        /\ \A t \in timers :
              debounceFires(t) =>
                  /\ t.query = query
                  /\ \A r \in searchRequests' \ searchRequests :
                        r.q = Trim(query) /\ TrimmedLength(query) >= 2
        /\ unmountModal =>
              /\ timers' = {}
              /\ searchRequests' = searchRequests /\ searches' = searches
      ]_vars

\* results of a first search are shown, the query was edited again and its
\* timer is pending: shortening the query now cancels the timer and empties
\* the results
C21_Witness ==
    /\ searches = 1
    /\ results # <<>>
    /\ query = <<"a", "l", " ">>
    /\ timers # {}
    /\ ENABLED ( /\ setQuery(<<"a", " ">>)
                 /\ timers' = {}
                 /\ results' = <<>>
                 /\ ~searching' )

\* no timer is pending and every searchUsers call has been answered
SearchSettled == timers = {} /\ searchRequests = {}

\* what a search for the query as it stands stores: nothing for a short
\* query; else the server's users less the owner and the members, or nothing
\* when the call failed
LatestResults ==
    IF TrimmedLength(query) < 2 THEN { <<>> }
    ELSE { <<>>, FilterUsers(UsersFound(Trim(query)), ExistingIds(members)) }

\* C22: once every issued search has been answered, the stored results are
\* those of the most recent query: the late answer of an earlier query never
\* replaces them
C22_LatestQueryWins == SearchSettled => results \in LatestResults

\* the users listed in the results
Listed == { results[i] : i \in 1..Len(results) }

\* C23: the stored results never list the board owner or a board member
C23_NoMemberInResults == Listed \cap ExistingIds(members) = {}

\* the steps the claim gives for it do hold: an answered search stores no
\* user who was owner or member when its effect ran, a successful add takes
\* the added user off the results, a failed add leaves the results, and both
\* reset the adding marker
AddAndSearchSteps ==
    [][ /\ \A r \in searchRequests :
              searchUsersResolved(r) => Listed' \cap r.existing = {}
        /\ \A a \in addRequests :
              /\ addMemberResolved(a) =>
                    /\ a.user \notin Listed' /\ Listed' \subseteq Listed
                    /\ adding' = Null
              /\ addMemberRejected(a) => (results' = results /\ adding' = Null)
      ]_vars

\* ================================================================ toasts
\* Toast: the auto-dismiss effect and the close button.  A toast record
\* holds: stage ("new", "up" while mounted, "down" once unmounted), the
\* duration prop, the time of mounting, the number of prop changes and of
\* clicks on the close button, the due time of the effect's timer (outer), the due times of the pending
\* setTimeout(onClose, 300) timers (inner), the number of onClose calls and
\* how many of them came after the unmount.

\* the due times of all pending timers
DueTimes ==
    UNION { {toastView[t].outer} \ {NoTimer} : t \in ToastIds }
      \cup UNION { toastView[t].inner : t \in ToastIds }

\* the effect body: const timer = setTimeout(..., duration)
StartTimer(duration) == clock + duration

\* the effect cleanup: clearTimeout(timer)
Cleanup(v) == [v EXCEPT !.outer = NoTimer]

\* what the parent does with an onClose call: it removes the toast at once,
\* or it leaves the toast mounted (to remove it later, or never)
ParentReactions == {"unmount", "keep"}

\* onClose(): the call is counted; a parent that removes a mounted toast
\* unmounts it, which runs the cleanup
onClose(v, parent) ==
    LET called == [v EXCEPT !.closes = @ + 1,
                            !.late = IF v.stage = "down" THEN @ + 1 ELSE @]
    IN IF v.stage = "up" /\ parent = "unmount"
       THEN Cleanup([called EXCEPT !.stage = "down"])
       ELSE called

\* the page renders toast t; its effect runs
mountToast(t, d) ==
    /\ toastView[t].stage = "new"
    /\ toastView' = [toastView EXCEPT ![t] =
            [@ EXCEPT !.stage = "up", !.duration = d, !.mountedAt = clock,
                      !.outer = StartTimer(d)]]
    /\ UNCHANGED << clock, boardVars, searchVars >>

\* the effect's timer fires: setTimeout(onClose, 300)
outerFires(t) ==
    /\ toastView[t].outer # NoTimer
    /\ toastView[t].outer <= clock
    /\ toastView' = [toastView EXCEPT ![t] =
            [@ EXCEPT !.outer = NoTimer, !.inner = @ \cup {clock + CloseDelay}]]
    /\ UNCHANGED << clock, boardVars, searchVars >>

\* the delayed onClose fires
innerFires(t) ==
    /\ \E due \in toastView[t].inner, parent \in ParentReactions :
          /\ due <= clock
          /\ toastView' = [toastView EXCEPT ![t] =
                  onClose([@ EXCEPT !.inner = @ \ {due}], parent)]
    /\ UNCHANGED << clock, boardVars, searchVars >>

\* the close button of a mounted toast: onClick={onClose}
clickClose(t) ==
    /\ toastView[t].stage = "up"
    /\ toastView[t].clicks < MaxClicks
    /\ \E parent \in ParentReactions :
          toastView' = [toastView EXCEPT ![t] =
                  onClose([@ EXCEPT !.clicks = @ + 1], parent)]
    /\ UNCHANGED << clock, boardVars, searchVars >>

\* the parent re-renders a mounted toast with another duration or another
\* onClose: the cleanup, then the effect again
changeProps(t, d) ==
    /\ toastView[t].stage = "up"
    /\ toastView[t].changes < MaxPropChanges
    /\ toastView' = [toastView EXCEPT ![t] =
            [Cleanup(@) EXCEPT !.duration = d, !.changes = @ + 1,
                               !.outer = StartTimer(d)]]
    /\ UNCHANGED << clock, boardVars, searchVars >>

\* the parent removes a mounted toast by itself
unmountToast(t) ==
    /\ toastView[t].stage = "up"
    /\ toastView' = [toastView EXCEPT ![t] = Cleanup([@ EXCEPT !.stage = "down"])]
    /\ UNCHANGED << clock, boardVars, searchVars >>

\* time passes up to the next pending timer, once every due timer has fired
advanceClock ==
    /\ DueTimes # {}
    /\ \A due \in DueTimes : due > clock
    /\ clock' = CHOOSE due \in DueTimes : \A other \in DueTimes : due <= other
    /\ UNCHANGED << toastView, boardVars, searchVars >>

NextToast ==
    \/ \E t \in ToastIds, d \in Durations : mountToast(t, d)
    \/ \E t \in ToastIds : outerFires(t)
    \/ \E t \in ToastIds : innerFires(t)
    \/ \E t \in ToastIds : clickClose(t)
    \/ \E t \in ToastIds, d \in Durations : changeProps(t, d)
    \/ \E t \in ToastIds : unmountToast(t)
    \/ advanceClock

SpecToast == Init /\ [][NextToast]_vars

\* C24: a toast calls onClose at most once, and never after its unmount
C24_CloseOnceWhileMounted ==
    \A t \in ToastIds : toastView[t].closes <= 1 /\ toastView[t].late = 0

\* what does hold: a toast left alone calls onClose once, from its timer, at
\* duration + 300 ms after mounting; a toast unmounted (by the parent alone
\* or in answer to a click) before its effect's timer fired never calls
\* onClose from a timer; a prop change before the timer fired leaves one
\* timer, restarted
ToastLeftAlone ==
    [][ \A t \in ToastIds :
          /\ ( /\ innerFires(t)
               /\ toastView[t].changes = 0
               /\ toastView[t].clicks = 0
               /\ toastView[t].stage = "up" ) =>
                 /\ toastView'[t].closes = 1
                 /\ clock = toastView[t].mountedAt + toastView[t].duration + CloseDelay
          /\ ( /\ unmountToast(t) \/ clickClose(t)
               /\ toastView'[t].stage = "down"
               /\ toastView[t].inner = {} ) =>
                 (toastView'[t].outer = NoTimer /\ toastView'[t].inner = {})
          /\ \A d \in Durations :
               changeProps(t, d) => toastView'[t].outer = clock + d
      ]_vars

====
